---- MODULE Spec2Model ----
(***************************************************************************)
(* A model of the mask-authoring canvas of qoar-photo: the CanvasEditor    *)
(* component (display canvas, off-screen mask canvas, pointer handlers,    *)
(* mask export) and the parts of App that drive it.                        *)
(*                                                                         *)
(* Numbers that the code computes in floating point are modelled as exact  *)
(* rationals <<n, d>> in lowest terms with d > 0.                          *)
(***************************************************************************)
EXTENDS Integers, Sequences, FiniteSets, TLC

(***************************************************************************)
(* Exact rational arithmetic.                                              *)
(***************************************************************************)
Abs(n) == IF n < 0 THEN -n ELSE n

RECURSIVE GCD(_, _)
GCD(a, b) == IF b = 0 THEN a ELSE GCD(b, a % b)

Norm(n, d) ==
  IF d = 1 THEN <<n, 1>>
  ELSE LET g == GCD(Abs(n), Abs(d))
       IN  IF d < 0 THEN <<(-n) \div g, (-d) \div g>> ELSE <<n \div g, d \div g>>

I(n) == <<n, 1>>
RAdd(a, b) == Norm(a[1] * b[2] + b[1] * a[2], a[2] * b[2])
RSub(a, b) == Norm(a[1] * b[2] - b[1] * a[2], a[2] * b[2])
RMul(a, b) == Norm(a[1] * b[1], a[2] * b[2])
RDiv(a, b) == Norm(a[1] * b[2], a[2] * b[1])
RLt(a, b) == a[1] * b[2] < b[1] * a[2]
RLe(a, b) == a[1] * b[2] <= b[1] * a[2]
RFloor(a) == a[1] \div a[2]
RMin(a, b) == IF RLe(a, b) THEN a ELSE b
RMax(a, b) == IF RLe(a, b) THEN b ELSE a

(***************************************************************************)
(* The images a user can pick.  Image i has natural size NatW[i] x NatH[i].*)
(* 0 stands for null (no image).                                           *)
(***************************************************************************)
Images == {1, 2}
NatW == <<4, 2>>
NatH == <<2, 2>>

(***************************************************************************)
(* Letterbox geometry, as the render effect, getCoords and the redraw      *)
(* callback each compute it.  The result is <<drawX, drawY, drawWidth,     *)
(* drawHeight>>.                                                           *)
(***************************************************************************)
LetterboxWidthFit(cw, ch, iw, ih) ==
  LET imageAspect  == RDiv(I(iw), I(ih))
      drawWidth  == I(cw)
      drawHeight == RDiv(drawWidth, imageAspect)
  IN  <<I(0), RDiv(RSub(I(ch), drawHeight), I(2)), drawWidth, drawHeight>>

LetterboxHeightFit(cw, ch, iw, ih) ==
  LET imageAspect  == RDiv(I(iw), I(ih))
      drawHeight == I(ch)
      drawWidth  == RMul(drawHeight, imageAspect)
  IN  <<RDiv(RSub(I(cw), drawWidth), I(2)), I(0), drawWidth, drawHeight>>

Letterbox(cw, ch, iw, ih) ==
  LET canvasAspect == RDiv(I(cw), I(ch))
      imageAspect  == RDiv(I(iw), I(ih))
  IN  IF RLt(canvasAspect, imageAspect)
      THEN LetterboxWidthFit(cw, ch, iw, ih)
      ELSE LetterboxHeightFit(cw, ch, iw, ih)

\* a fitted rectangle that is not centred
LetterboxUncentred(cw, ch, iw, ih) ==
  LET r == Letterbox(cw, ch, iw, ih)
  IN  <<I(0), I(0), r[3], r[4]>>

RenderRect(cw, ch, iw, ih) == Letterbox(cw, ch, iw, ih)
CoordsRect(cw, ch, iw, ih) == Letterbox(cw, ch, iw, ih)
RedrawRect(cw, ch, iw, ih) == Letterbox(cw, ch, iw, ih)

(***************************************************************************)
(* getCoords, lines 99-129: the pointer's client position (ex, ey), the    *)
(* canvas's bounding rectangle rect = [left, top, width, height], its      *)
(* backing-store size cw x ch and the image's natural size iw x ih give a  *)
(* point in image coordinates, or NoCoord (null).                          *)
(***************************************************************************)
NoCoord == <<>>

CanvasPoint(cw, ch, rect, ex, ey) ==
  LET scaleX == RDiv(I(cw), I(rect.width))
      scaleY == RDiv(I(ch), I(rect.height))
  IN  <<RMul(I(ex - rect.left), scaleX), RMul(I(ey - rect.top), scaleY)>>

OutsideRect(p, r) ==
  \/ RLt(p[1], r[1])
  \/ RLt(RAdd(r[1], r[3]), p[1])
  \/ RLt(p[2], r[2])
  \/ RLt(RAdd(r[2], r[4]), p[2])

RescaleNoOffset(p, r, iw, ih) ==
  <<RMul(RDiv(p[1], r[3]), I(iw)), RMul(RDiv(p[2], r[4]), I(ih))>>

Rescale(p, r, iw, ih) ==
  <<RMul(RDiv(RSub(p[1], r[1]), r[3]), I(iw)),
    RMul(RDiv(RSub(p[2], r[2]), r[4]), I(ih))>>

ClampTo(p, r) ==
  <<RMax(r[1], RMin(RAdd(r[1], r[3]), p[1])), RMax(r[2], RMin(RAdd(r[2], r[4]), p[2]))>>

MapCoordsClamped(cw, ch, iw, ih, rect, ex, ey) ==
  LET r == CoordsRect(cw, ch, iw, ih)
  IN  Rescale(ClampTo(CanvasPoint(cw, ch, rect, ex, ey), r), r, iw, ih)

MapCoords(cw, ch, iw, ih, rect, ex, ey) ==
  LET p == CanvasPoint(cw, ch, rect, ex, ey)
      r == CoordsRect(cw, ch, iw, ih)
  IN  IF OutsideRect(p, r) THEN NoCoord ELSE Rescale(p, r, iw, ih)

(***************************************************************************)
(* Rasters.  A colour is <<r, g, b, a>> with 8-bit channels.  The mask     *)
(* canvas is [width, height, pix]: pix is the set of pixels <<i, j>> that  *)
(* a stroke has painted (strokeStyle rgba(255, 0, 255, 1)); every other    *)
(* pixel is transparent.  A two-colour raster [width, height, pix, fg, bg] *)
(* has colour fg at the pixels of pix and bg everywhere else.              *)
(***************************************************************************)
Transparent == <<0, 0, 0, 0>>
Black   == <<0, 0, 0, 255>>
White   == <<255, 255, 255, 255>>
Magenta == <<255, 0, 255, 255>>

DefaultCanvasWidth == 300
DefaultCanvasHeight == 150

\* globalCompositeOperation 'source-over' of colour s onto colour d
SourceOver(s, d) ==
  IF s[4] = 255 THEN s
  ELSE IF s[4] = 0 THEN d
  ELSE LET da == (d[4] * (255 - s[4])) \div 255
           a  == s[4] + da
       IN  <<(s[1] * s[4] + d[1] * da) \div a,
             (s[2] * s[4] + d[2] * da) \div a,
             (s[3] * s[4] + d[3] * da) \div a, a>>

\* globalCompositeOperation 'source-in': s is kept where d is opaque
SourceIn(s, d) ==
  LET a == (s[4] * d[4]) \div 255
  IN  IF a = 0 THEN Transparent ELSE <<s[1], s[2], s[3], a>>

Canon(r) ==
  IF r.pix = {} \/ r.fg = r.bg
  THEN [width |-> r.width, height |-> r.height, pix |-> {}, fg |-> r.bg, bg |-> r.bg]
  ELSE r

PixelAt(r, p) == IF p \in r.pix THEN r.fg ELSE r.bg

(***************************************************************************)
(* getMaskAsBase64, lines 193-211, on a mask canvas m: the scratch canvas  *)
(* after each drawing call.  NoMask is undefined.                          *)
(***************************************************************************)
NoMask == [width |-> 0, height |-> 0, pix |-> {}, fg |-> Transparent, bg |-> Transparent]

ScratchCanvas(m) ==
  [width |-> m.width, height |-> m.height, pix |-> m.pix,
   fg |-> Transparent, bg |-> Transparent]

FillRectOver(r, c) == [r EXCEPT !.fg = SourceOver(c, r.fg), !.bg = SourceOver(c, r.bg)]

DrawMaskOver(r) ==
  [r EXCEPT !.fg = SourceOver(Magenta, r.fg), !.bg = SourceOver(Transparent, r.bg)]

FillRectIn(r, c) == [r EXCEPT !.fg = SourceIn(c, r.fg), !.bg = SourceIn(c, r.bg)]

ExportRaster(m) ==
  Canon(FillRectIn(DrawMaskOver(FillRectOver(ScratchCanvas(m), Black)), White))

(***************************************************************************)
(* Stroking the mask, lines 152-158.  A round-capped segment from p to q   *)
(* of width w paints the pixels whose centre is within w/2 of the segment. *)
(***************************************************************************)
Dot(u, v) == RAdd(RMul(u[1], v[1]), RMul(u[2], v[2]))
Vec(a, b) == <<RSub(b[1], a[1]), RSub(b[2], a[2])>>

\* the squared distance from c to the segment from p along v, where
\* vv = Dot(v, v)
DistSq(c, p, v, vv) ==
  LET u  == Vec(p, c)
      uv == Dot(u, v)
      uu == Dot(u, u)
  IN  IF RLe(uv, I(0)) THEN uu
      ELSE IF RLe(vv, uv) THEN RAdd(RSub(uu, RAdd(uv, uv)), vv)
      ELSE RSub(uu, RDiv(RMul(uv, uv), vv))

Centre(px) == <<Norm(2 * px[1] + 1, 2), Norm(2 * px[2] + 1, 2)>>

Clip(lo, hi, n) == IF n < lo THEN lo ELSE IF n > hi THEN hi ELSE n

SegmentPixels(m, p, q, w) ==
  LET half == RDiv(w, I(2))
      r2 == RMul(half, half)
      v  == Vec(p, q)
      vv == Dot(v, v)
      x0 == Clip(0, m.width, RFloor(RSub(RMin(p[1], q[1]), half)))
      x1 == Clip(-1, m.width - 1, RFloor(RAdd(RMax(p[1], q[1]), half)))
      y0 == Clip(0, m.height, RFloor(RSub(RMin(p[2], q[2]), half)))
      y1 == Clip(-1, m.height - 1, RFloor(RAdd(RMax(p[2], q[2]), half)))
  IN  {px \in (x0 .. x1) \X (y0 .. y1) : RLe(DistSq(Centre(px), p, v, vv), r2)}

\* the brush size taken as it is
LineWidthUnscaled(size, iw, cw) == I(size)

\* maskCtx.lineWidth, line 152
LineWidth(size, iw, cw) == RMul(I(size), RDiv(I(iw), I(cw)))

(***************************************************************************)
(* Bounds of the model and the inputs it draws from.                       *)
(***************************************************************************)
MaxLoads == 1      \* image loads in flight
MaxRaf == 1        \* redraw callbacks waiting for the next animation frame
MaxPending == 1    \* edit requests awaiting their response
MaxHistory == 2    \* entries of editHistory

InitialBrushSize == 30
BrushSizes == {5, 30}
Prompts == {"", " ", "edit"}
Layouts == {[left |-> 0, top |-> 0, width |-> 8, height |-> 6],
            [left |-> 1, top |-> 1, width |-> 4, height |-> 4]}
ClientPoints == {<<1, 2>>, <<3, 3>>, <<4, 0>>}

(***************************************************************************)
(* State.                                                                  *)
(***************************************************************************)
VARIABLES
  originalImage,   \* App: the selected original image, 0 for null
  objectImage,     \* App: the selected object image, 0 for null
  editHistory,     \* App: sequence of edit results
  historyIndex,    \* App: index into editHistory (0-based), -1 for none
  prompt,          \* App: the prompt text
  isLoading,       \* App
  error,           \* App: error message, "" for null
  isBrushEnabled,  \* App
  brushSize,       \* App
  imageElement,    \* CanvasEditor: the loaded image, 0 for null
  isDrawing,       \* CanvasEditor
  canvas,          \* canvasRef.current: NoCanvas or the backing size
  display,         \* what the display canvas shows
  mask,            \* maskCanvasRef.current
  path,            \* current point of the mask context's path, <<>> if empty
  rafQueue,        \* callbacks passed to requestAnimationFrame, not yet run
  loads,           \* loads[i]: Image objects of image i whose onload is due
  layout,          \* the canvas element's box on the page
  ctx2d,           \* whether getContext('2d') yields a context
  pending,         \* calls of editImageWithGemini awaiting a response
  raised,          \* the canvas operation that threw in the last handler
  exported,        \* the last result of getMaskAsBase64, kept while the mask
                   \* canvas is as it was when exported
  probe            \* input and output of getCoords checked on its own

vars == <<originalImage, objectImage, editHistory, historyIndex, prompt,
          isLoading, error, isBrushEnabled, brushSize, imageElement,
          isDrawing, canvas, display, mask, path, rafQueue, loads, layout,
          ctx2d, pending, raised, exported, probe>>

appVars == <<originalImage, objectImage, editHistory, historyIndex, prompt,
             isLoading, error, isBrushEnabled, brushSize>>

NoCanvas == [width |-> 0, height |-> 0]
NoOverlay == [width |-> 0, height |-> 0, pix |-> {}]
\* ctx.globalAlpha: 1.0 on a new context, 0.4 while the overlay is drawn
FullAlpha == <<1, 1>>
OverlayAlpha == <<2, 5>>
Blank == [img |-> 0, rect |-> <<>>, overlaid |-> FALSE, overlay |-> NoOverlay,
          overlayAlpha |-> FullAlpha, globalAlpha |-> FullAlpha]
NotExported == [done |-> FALSE, out |-> NoMask]
NoProbe == [cw |-> 0, ch |-> 0, iw |-> 0, ih |-> 0, rect |-> <<>>,
            ex |-> 0, ey |-> 0, done |-> FALSE, out |-> NoCoord]

Init ==
  /\ originalImage = 0
  /\ objectImage = 0
  /\ editHistory = <<>>
  /\ historyIndex = -1
  /\ prompt = ""
  /\ isLoading = FALSE
  /\ error = ""
  /\ isBrushEnabled = FALSE
  /\ brushSize = InitialBrushSize
  /\ imageElement = 0
  /\ isDrawing = FALSE
  /\ canvas = NoCanvas
  /\ display = Blank
  /\ mask = [width |-> DefaultCanvasWidth, height |-> DefaultCanvasHeight, pix |-> {}]
  /\ path = <<>>
  /\ rafQueue = <<>>
  /\ loads = [i \in Images |-> 0]
  /\ layout \in Layouts
  /\ ctx2d \in BOOLEAN
  /\ pending = <<>>
  /\ raised = "none"
  /\ exported = NotExported
  /\ probe = NoProbe

(***************************************************************************)
(* CanvasEditor.                                                           *)
(***************************************************************************)

\* the render effect, lines 55-92, run with canvas c, image img, brush flag b
\* and mask m on a display showing d
RenderEffect(c, img, b, m, d) ==
  IF c = NoCanvas \/ img = 0 \/ ~ctx2d THEN d
  ELSE [img |-> img, rect |-> RenderRect(c.width, c.height, NatW[img], NatH[img]),
        overlaid |-> b, overlay |-> IF b THEN m ELSE NoOverlay,
        overlayAlpha |-> IF b THEN OverlayAlpha ELSE FullAlpha,
        globalAlpha |-> IF b THEN FullAlpha ELSE d.globalAlpha]

\* the callback passed to requestAnimationFrame, lines 161-188, which
\* captured image img
RedrawCallback(c, img, m, d) ==
  IF c = NoCanvas \/ img = 0 \/ ~ctx2d THEN d
  ELSE [img |-> img, rect |-> RedrawRect(c.width, c.height, NatW[img], NatH[img]),
        overlaid |-> TRUE, overlay |-> m,
        overlayAlpha |-> OverlayAlpha, globalAlpha |-> FullAlpha]

RECURSIVE RunCallbacks(_, _, _, _)
RunCallbacks(q, c, m, d) ==
  IF q = <<>> THEN d
  ELSE RunCallbacks(Tail(q), c, m, RedrawCallback(c, Head(q), m, d))

\* getCoords, lines 94-130, for a pointer event at client position e
getCoords(e) ==
  IF canvas = NoCanvas \/ imageElement = 0 THEN NoCoord
  ELSE MapCoords(canvas.width, canvas.height, NatW[imageElement],
                 NatH[imageElement], layout, e[1], e[2])

\* the last export is remembered for as long as the mask canvas is unchanged
Remembered(m) == IF m = mask THEN exported ELSE NotExported

\* maskCtx?.clearRect over the whole mask canvas, lines 45-46 and 214-215
ClearRect(m) == IF ctx2d THEN [m EXCEPT !.pix = {}] ELSE m

\* clearMask, lines 213-218: the mask canvas afterwards.  The useEffect call
\* of line 217 is made outside a render and throws (invalid hook call).
ClearMask(m) == ClearRect(m)
ClearMaskRaises == TRUE

\* getMaskAsBase64, lines 192-212: what it returns, whether it throws, and
\* the mask canvas afterwards (it draws on the scratch canvas only)
MaskAfterExportCleared(m) == [m EXCEPT !.pix = {}]
MaskAfterExport(m) == m
ExportMask(m) == IF ~ctx2d THEN NoMask ELSE ExportRaster(m)
ExportRaises(m) == ctx2d /\ (m.width = 0 \/ m.height = 0)

\* draw, lines 144-189, for a pointer event at e, with isDrawing read as
\* drawing (the value the handler's closure holds).  lineTo on an empty path
\* only sets the current point; whether a zero-length line with round caps
\* leaves a dot differs between browsers.
Draw(e, drawing) ==
  LET coords == getCoords(e)
  IN  IF ~drawing \/ ~isBrushEnabled \/ coords = NoCoord \/ ~ctx2d
      THEN UNCHANGED <<mask, path, rafQueue>>
      ELSE /\ Len(rafQueue) < MaxRaf
           /\ \E dot \in IF path = coords THEN BOOLEAN ELSE {TRUE} :
                mask' = [mask EXCEPT !.pix =
                  IF path = <<>> \/ (path = coords /\ ~dot) THEN @
                  ELSE @ \cup SegmentPixels(mask, path, coords,
                         LineWidth(brushSize, NatW[imageElement], canvas.width))]
           /\ path' = coords
           /\ rafQueue' = Append(rafQueue, imageElement)

\* startDrawing, lines 132-136
MouseDown(e) ==
  /\ canvas # NoCanvas
  /\ IF ~isBrushEnabled
     THEN UNCHANGED <<isDrawing, mask, path, rafQueue>>
     ELSE /\ isDrawing' = TRUE
          /\ Draw(e, isDrawing)
  /\ exported' = Remembered(mask')
  /\ raised' = "none"
  /\ UNCHANGED <<appVars, imageElement, canvas, display, loads, layout, ctx2d,
                 pending, probe>>

\* onMouseMove = draw
MouseMove(e) ==
  /\ canvas # NoCanvas
  /\ Draw(e, isDrawing)
  /\ exported' = Remembered(mask')
  /\ raised' = "none"
  /\ UNCHANGED <<appVars, imageElement, isDrawing, canvas, display, loads, layout,
                 ctx2d, pending, probe>>

\* maskCtx?.beginPath(), line 141: the path afterwards
PathKept(p) == p
BeginPath(p) == IF ctx2d THEN <<>> ELSE p

\* stopDrawing, lines 138-142 (onMouseUp and onMouseLeave)
StopDrawing ==
  /\ canvas # NoCanvas
  /\ isDrawing' = FALSE
  /\ path' = BeginPath(path)
  /\ raised' = "none"
  /\ UNCHANGED <<appVars, imageElement, canvas, display, mask, rafQueue, loads,
                 layout, ctx2d, pending, exported, probe>>

MouseUp == StopDrawing
MouseLeave == StopDrawing

\* the browser runs the callbacks requested for the next animation frame
AnimationFrame ==
  /\ rafQueue # <<>>
  /\ display' = RunCallbacks(rafQueue, canvas, mask, display)
  /\ rafQueue' = <<>>
  /\ raised' = "none"
  /\ UNCHANGED <<appVars, imageElement, isDrawing, canvas, mask, path, loads,
                 layout, ctx2d, pending, exported, probe>>

\* img.onload, lines 28-48, followed by the render effect for the new image
ImageLoaded(i) ==
  /\ loads[i] > 0
  /\ loads' = [loads EXCEPT ![i] = @ - 1]
  /\ imageElement' = i
  /\ IF canvas # NoCanvas
     THEN /\ canvas' = [width |-> layout.width, height |-> layout.height]
          /\ mask' = ClearRect([width |-> NatW[i], height |-> NatH[i], pix |-> {}])
          /\ path' = <<>>
          /\ display' = RenderEffect(canvas', i, isBrushEnabled, mask', Blank)
     ELSE UNCHANGED <<canvas, mask, path, display>>
  /\ exported' = Remembered(mask')
  /\ raised' = "none"
  /\ UNCHANGED <<appVars, isDrawing, rafQueue, layout, ctx2d, pending, probe>>

\* the page lays the canvas element out anew (the code does not track it)
Resize(l) ==
  /\ l # layout
  /\ layout' = l
  /\ raised' = "none"
  /\ UNCHANGED <<appVars, imageElement, isDrawing, canvas, display, mask, path,
                 rafQueue, loads, ctx2d, pending, exported, probe>>

(***************************************************************************)
(* App.                                                                    *)
(***************************************************************************)
TotalLoads == loads[1] + loads[2]

\* handleFileChange(event, 'original'), lines 40-56, for a file holding
\* image i, and the render that follows: the canvas element is mounted if
\* there was none, and the image-load effect starts loading the new URL.
SelectOriginal(i, tooLarge) ==
  IF tooLarge
  THEN /\ error' = "File is too large"
       /\ raised' = "none"
       /\ UNCHANGED <<originalImage, objectImage, editHistory, historyIndex,
                      prompt, isLoading, isBrushEnabled, brushSize, imageElement,
                      isDrawing, canvas, display, mask, path, rafQueue, loads,
                      layout, ctx2d, pending, exported, probe>>
  ELSE /\ TotalLoads < MaxLoads
       /\ error' = ""
       /\ originalImage' = i
       /\ editHistory' = <<>>
       /\ historyIndex' = -1
       /\ objectImage' = 0
       /\ mask' = ClearMask(mask)
       /\ raised' = IF ClearMaskRaises THEN "clearMask" ELSE "none"
       /\ IF originalImage = 0
          THEN /\ canvas' = [width |-> DefaultCanvasWidth, height |-> DefaultCanvasHeight]
               /\ display' = Blank
          ELSE UNCHANGED <<canvas, display>>
       /\ loads' = [loads EXCEPT ![i] = @ + 1]
       /\ exported' = Remembered(mask')
       /\ UNCHANGED <<prompt, isLoading, isBrushEnabled, brushSize, imageElement,
                      isDrawing, path, rafQueue, layout, ctx2d, pending, probe>>

\* handleFileChange(event, 'object'), lines 40-49 and 57-59
SelectObject(i, tooLarge) ==
  /\ originalImage # 0
  /\ IF tooLarge
     THEN error' = "File is too large" /\ UNCHANGED objectImage
     ELSE error' = "" /\ objectImage' = i
  /\ raised' = "none"
  /\ UNCHANGED <<originalImage, editHistory, historyIndex, prompt, isLoading,
                 isBrushEnabled, brushSize, imageElement, isDrawing, canvas,
                 display, mask, path, rafQueue, loads, layout, ctx2d, pending,
                 exported, probe>>

\* the prompt textarea, line 193
SetPrompt(p) ==
  /\ originalImage # 0
  /\ p # prompt
  /\ prompt' = p
  /\ raised' = "none"
  /\ UNCHANGED <<originalImage, objectImage, editHistory, historyIndex, isLoading,
                 error, isBrushEnabled, brushSize, imageElement, isDrawing, canvas,
                 display, mask, path, rafQueue, loads, layout, ctx2d, pending,
                 exported, probe>>

\* the brush checkbox, line 171, and the render effect it triggers
ToggleBrush ==
  /\ originalImage # 0
  /\ isBrushEnabled' = ~isBrushEnabled
  /\ display' = RenderEffect(canvas, imageElement, isBrushEnabled', mask, display)
  /\ raised' = "none"
  /\ UNCHANGED <<originalImage, objectImage, editHistory, historyIndex, prompt,
                 isLoading, error, brushSize, imageElement, isDrawing, canvas,
                 mask, path, rafQueue, loads, layout, ctx2d, pending, exported,
                 probe>>

\* the brush size slider, line 179, and the render effect it triggers
SetBrushSize(n) ==
  /\ isBrushEnabled
  /\ n # brushSize
  /\ brushSize' = n
  /\ display' = RenderEffect(canvas, imageElement, isBrushEnabled, mask, display)
  /\ raised' = "none"
  /\ UNCHANGED <<originalImage, objectImage, editHistory, historyIndex, prompt,
                 isLoading, error, isBrushEnabled, imageElement, isDrawing, canvas,
                 mask, path, rafQueue, loads, layout, ctx2d, pending, exported,
                 probe>>

\* the Clear Mask button, line 181: clearMask, and no render follows
ClearMaskButton ==
  /\ isBrushEnabled
  /\ mask' = ClearMask(mask)
  /\ raised' = IF ClearMaskRaises THEN "clearMask" ELSE "none"
  /\ exported' = Remembered(mask')
  /\ UNCHANGED <<appVars, imageElement, isDrawing, canvas, display, path,
                 rafQueue, loads, layout, ctx2d, pending, probe>>

\* resetState, lines 100-113, and the render that follows: the canvas
\* element is unmounted and, if the image URL changed, the image-load effect
\* clears imageElement
StartOver ==
  /\ originalImage # 0 \/ editHistory # <<>>
  /\ originalImage' = 0
  /\ objectImage' = 0
  /\ editHistory' = <<>>
  /\ historyIndex' = -1
  /\ prompt' = ""
  /\ error' = ""
  /\ isLoading' = FALSE
  /\ isBrushEnabled' = FALSE
  /\ canvas' = NoCanvas
  /\ display' = Blank
  /\ imageElement' = IF originalImage # 0 THEN 0 ELSE imageElement
  /\ raised' = "none"
  /\ UNCHANGED <<brushSize, isDrawing, mask, path, rafQueue, loads, layout, ctx2d,
                 pending, exported, probe>>

\* parts with a mask part whatever maskB64 is
RequestPartsMasked(image, p, maskB64, object) ==
  <<[kind |-> "image", image |-> image, mask |-> NoMask],
    [kind |-> "mask", image |-> 0, mask |-> maskB64],
    [kind |-> "text", image |-> 0, mask |-> NoMask]>>

\* the parts editImageWithGemini sends, part_000 lines 42-65
RequestParts(image, p, maskB64, object) ==
  <<[kind |-> "image", image |-> image, mask |-> NoMask]>>
  \o (IF maskB64 # NoMask
      THEN <<[kind |-> "mask", image |-> 0, mask |-> maskB64]>> ELSE <<>>)
  \o (IF object # 0
      THEN <<[kind |-> "object", image |-> object, mask |-> NoMask]>> ELSE <<>>)
  \o <<[kind |-> "text", image |-> 0, mask |-> NoMask]>>

\* handleEditRequest up to the call of editImageWithGemini, lines 63-77
Generate ==
  /\ ~isLoading /\ originalImage # 0 /\ prompt # ""
  /\ IF prompt = " "
     THEN /\ error' = "Please upload an image and provide an editing prompt."
          /\ raised' = "none"
          /\ UNCHANGED <<isLoading, pending, exported, mask>>
     ELSE IF isBrushEnabled /\ ExportRaises(mask)
     THEN /\ error' = "An unexpected error occurred."
          /\ raised' = "getMaskAsBase64"
          /\ UNCHANGED <<isLoading, pending, exported, mask>>
     ELSE /\ Len(pending) < MaxPending
          /\ historyIndex + 1 < MaxHistory
          /\ error' = ""
          /\ isLoading' = TRUE
          /\ raised' = "none"
          /\ mask' = IF isBrushEnabled THEN MaskAfterExport(mask) ELSE mask
          /\ LET maskB64 == IF isBrushEnabled THEN ExportMask(mask) ELSE NoMask
             IN  /\ exported' = IF isBrushEnabled
                                THEN [done |-> TRUE, out |-> maskB64]
                                ELSE exported
                 /\ pending' = Append(pending,
                      [parts |-> RequestParts(originalImage, prompt, maskB64, objectImage),
                       editHistory |-> editHistory, historyIndex |-> historyIndex])
  /\ UNCHANGED <<originalImage, objectImage, editHistory, historyIndex, prompt,
                 isBrushEnabled, brushSize, imageElement, isDrawing, canvas,
                 display, path, rafQueue, loads, layout, ctx2d, probe>>

\* an index one past the last entry of history h
PastLastIndex(h) == Len(h)

\* newHistory.length - 1, App.tsx line 80
LastIndex(h) == Len(h) - 1

\* handleEditRequest after the await of line 77, lines 78-85, for the k-th
\* pending call; ok says whether editImageWithGemini returned a result
Response(k, ok) ==
  /\ k \in 1 .. Len(pending)
  /\ LET req == pending[k]
         newHistory == Append(SubSeq(req.editHistory, 1, req.historyIndex + 1),
                              [image |-> req.parts[1].image,
                               masked |-> req.parts[2].kind = "mask"])
     IN  /\ pending' = SubSeq(pending, 1, k - 1) \o SubSeq(pending, k + 1, Len(pending))
         /\ IF ok
            THEN /\ editHistory' = newHistory
                 /\ historyIndex' = LastIndex(newHistory)
                 /\ UNCHANGED error
            ELSE /\ error' = "Failed to edit image"
                 /\ UNCHANGED <<editHistory, historyIndex>>
  /\ isLoading' = FALSE
  /\ raised' = "none"
  /\ UNCHANGED <<originalImage, objectImage, prompt, isBrushEnabled, brushSize,
                 imageElement, isDrawing, canvas, display, mask, path, rafQueue,
                 loads, layout, ctx2d, exported, probe>>

\* handleUndo, lines 88-92
Undo ==
  /\ historyIndex >= 0
  /\ historyIndex' = historyIndex - 1
  /\ raised' = "none"
  /\ UNCHANGED <<originalImage, objectImage, editHistory, prompt, isLoading, error,
                 isBrushEnabled, brushSize, imageElement, isDrawing, canvas,
                 display, mask, path, rafQueue, loads, layout, ctx2d, pending,
                 exported, probe>>

\* handleRedo, lines 94-98
Redo ==
  /\ historyIndex < Len(editHistory) - 1
  /\ historyIndex' = historyIndex + 1
  /\ raised' = "none"
  /\ UNCHANGED <<originalImage, objectImage, editHistory, prompt, isLoading, error,
                 isBrushEnabled, brushSize, imageElement, isDrawing, canvas,
                 display, mask, path, rafQueue, loads, layout, ctx2d, pending,
                 exported, probe>>

\* getMaskAsBase64, lines 192-212, as handleEditRequest calls it (App.tsx
\* lines 73-74: an original image is selected and the brush is enabled).
\* This is the call alone; Generate is the whole handler.
GetMaskAsBase64 ==
  /\ originalImage # 0 /\ isBrushEnabled
  /\ raised' = IF ExportRaises(mask) THEN "getMaskAsBase64" ELSE "none"
  /\ exported' = IF ExportRaises(mask) THEN exported
                 ELSE [done |-> TRUE, out |-> ExportMask(mask)]
  /\ mask' = IF ExportRaises(mask) THEN mask ELSE MaskAfterExport(mask)
  /\ UNCHANGED <<appVars, imageElement, isDrawing, canvas, display, path,
                 rafQueue, loads, layout, ctx2d, pending, probe>>

(***************************************************************************)
(* Spec: the canvas component, driven by the pointer, the browser and the  *)
(* App handlers that reach it.  The App state that the component neither   *)
(* reads nor writes (prompt, requests, history) stays as it starts.        *)
(***************************************************************************)
Next ==
  \/ \E i \in Images : SelectOriginal(i, FALSE)
  \/ ToggleBrush
  \/ \E n \in BrushSizes : SetBrushSize(n)
  \/ ClearMaskButton
  \/ StartOver
  \/ GetMaskAsBase64
  \/ \E i \in Images : ImageLoaded(i)
  \/ \E e \in ClientPoints : MouseDown(e)
  \/ \E e \in ClientPoints : MouseMove(e)
  \/ MouseUp
  \/ MouseLeave
  \/ AnimationFrame
  \/ \E l \in Layouts : Resize(l)

Spec == Init /\ [][Next]_vars

(***************************************************************************)
(* SpecRequest: what an edit request carries.  The handlers between the    *)
(* choice of an image and the response to a request, and the image loads,  *)
(* without pointer input.                                                  *)
(***************************************************************************)
ObjectImages == {1}

RequestNext ==
  \/ \E i \in Images, tooLarge \in BOOLEAN : SelectOriginal(i, tooLarge)
  \/ \E i \in ObjectImages, tooLarge \in BOOLEAN : SelectObject(i, tooLarge)
  \/ \E p \in Prompts : SetPrompt(p)
  \/ ToggleBrush
  \/ ClearMaskButton
  \/ StartOver
  \/ Generate
  \/ \E k \in 1 .. MaxPending, ok \in BOOLEAN : Response(k, ok)
  \/ \E i \in Images : ImageLoaded(i)

SpecRequest == Init /\ [][RequestNext]_vars

(***************************************************************************)
(* SpecCoords: getCoords on its own, for every input of CoordInputs.       *)
(***************************************************************************)
CanvasSizes == {<<8, 6>>, <<4, 4>>, <<3, 5>>}
ImageSizes == {<<4, 2>>, <<2, 2>>, <<2, 5>>}
Rects == {[left |-> 0, top |-> 0, width |-> 8, height |-> 6],
          [left |-> 1, top |-> 1, width |-> 4, height |-> 4]}
ClientXs == {0, 1, 2, 3, 4, 5, 8, 9}
ClientYs == {0, 1, 2, 3, 5, 6, 7}

CoordInput(c, i, r, x, y) ==
  [cw |-> c[1], ch |-> c[2], iw |-> i[1], ih |-> i[2], rect |-> r,
   ex |-> x, ey |-> y, done |-> FALSE, out |-> NoCoord]

\* the scenario of the specification: container 800x600, image 1600x800,
\* no CSS scaling, pointer at the centre and at two more places
ScenarioInputs ==
  {CoordInput(<<800, 600>>, <<1600, 800>>,
              [left |-> 0, top |-> 0, width |-> 800, height |-> 600], xy[1], xy[2]) :
     xy \in {<<400, 300>>, <<400, 50>>, <<200, 500>>}}

CoordInputs ==
  {CoordInput(c, i, r, x, y) :
     c \in CanvasSizes, i \in ImageSizes, r \in Rects, x \in ClientXs, y \in ClientYs}
  \cup ScenarioInputs

InitCoords ==
  /\ Init
  /\ ctx2d = TRUE
  /\ layout.width = 8

\* getCoords is given the next input
Probe(in) ==
  /\ probe = NoProbe \/ probe.done
  /\ probe' = in
  /\ UNCHANGED <<appVars, imageElement, isDrawing, canvas, display, mask, path,
                 rafQueue, loads, layout, ctx2d, pending, raised, exported>>

\* getCoords, lines 99-129, returns
ProbeReturns ==
  /\ probe # NoProbe /\ ~probe.done
  /\ probe' = [probe EXCEPT !.done = TRUE,
                 !.out = MapCoords(probe.cw, probe.ch, probe.iw, probe.ih,
                                   probe.rect, probe.ex, probe.ey)]
  /\ UNCHANGED <<appVars, imageElement, isDrawing, canvas, display, mask, path,
                 rafQueue, loads, layout, ctx2d, pending, raised, exported>>

CoordsNext ==
  \/ \E in \in CoordInputs : Probe(in)
  \/ ProbeReturns

SpecCoords == InitCoords /\ [][CoordsNext]_vars

(***************************************************************************)
(* SpecGeometry: the three computations of the draw rectangle and the      *)
(* computation of the stroke width, each on its own, for every input of    *)
(* GeometryInputs.                                                         *)
(***************************************************************************)
GeometryInput(c, i, s) ==
  [cw |-> c[1], ch |-> c[2], iw |-> i[1], ih |-> i[2], size |-> s,
   by |-> "", done |-> FALSE, out |-> <<>>]

GeometryInputs ==
  {GeometryInput(c, i, s) :
     c \in CanvasSizes \cup {<<800, 600>>},
     i \in ImageSizes \cup {<<1600, 800>>},
     s \in BrushSizes}

\* a computation is given the next input
Measure(in) ==
  /\ probe = NoProbe \/ probe.done
  /\ probe' = in
  /\ UNCHANGED <<appVars, imageElement, isDrawing, canvas, display, mask, path,
                 rafQueue, loads, layout, ctx2d, pending, raised, exported>>

Computed(by, out) ==
  /\ probe # NoProbe /\ ~probe.done
  /\ probe' = [probe EXCEPT !.done = TRUE, !.by = by, !.out = out]
  /\ UNCHANGED <<appVars, imageElement, isDrawing, canvas, display, mask, path,
                 rafQueue, loads, layout, ctx2d, pending, raised, exported>>

\* the render effect's rectangle, lines 64-80
RenderGeometry ==
  Computed("render", RenderRect(probe.cw, probe.ch, probe.iw, probe.ih))

\* getCoords' rectangle, lines 105-119
CoordsGeometry ==
  Computed("getCoords", CoordsRect(probe.cw, probe.ch, probe.iw, probe.ih))

\* the redraw callback's rectangle, lines 167-181
RedrawGeometry ==
  Computed("redraw", RedrawRect(probe.cw, probe.ch, probe.iw, probe.ih))

\* draw's lineWidth, line 152
StrokeWidth ==
  Computed("lineWidth", LineWidth(probe.size, probe.iw, probe.cw))

\* ctx.drawImage(maskCanvasRef.current, drawX, drawY, drawWidth, drawHeight),
\* line 186: a length w of a mask canvas mw wide, as it shows in rectangle r
DisplayedLength(w, mw, r) == RMul(w, RDiv(r[3], I(mw)))

\* the width on the display of a stroke made with the input's brush size on
\* a mask canvas of the image's size, lines 152 and 168-186
OverlayThickness ==
  Computed("overlay",
           DisplayedLength(LineWidth(probe.size, probe.iw, probe.cw), probe.iw,
                           RedrawRect(probe.cw, probe.ch, probe.iw, probe.ih)))

GeometryNext ==
  \/ \E in \in GeometryInputs : Measure(in)
  \/ RenderGeometry
  \/ CoordsGeometry
  \/ RedrawGeometry
  \/ StrokeWidth
  \/ OverlayThickness

SpecGeometry == InitCoords /\ [][GeometryNext]_vars

(***************************************************************************)
(* SpecEdit: painting and editing together.  One image on a page that is   *)
(* not laid out anew, with a drawing context at hand: the handlers of App  *)
(* and of the canvas component that follow the choice of an image, up to   *)
(* the next Start Over.                                                    *)
(***************************************************************************)
EditImages == {1}
EditPoints == {<<1, 2>>, <<3, 3>>}
EditPrompts == {"edit"}

InitEdit ==
  /\ Init
  /\ ctx2d = TRUE
  /\ layout.width = 8

EditNext ==
  \/ \E i \in EditImages : SelectOriginal(i, FALSE)
  \/ \E i \in EditImages : ImageLoaded(i)
  \/ \E p \in EditPrompts : SetPrompt(p)
  \/ ToggleBrush
  \/ \E n \in BrushSizes : SetBrushSize(n)
  \/ \E e \in EditPoints : MouseDown(e)
  \/ \E e \in EditPoints : MouseMove(e)
  \/ MouseUp
  \/ AnimationFrame
  \/ Generate
  \/ \E k \in 1 .. MaxPending, ok \in BOOLEAN : Response(k, ok)
  \/ Undo
  \/ Redo

SpecEdit == InitEdit /\ [][EditNext]_vars

(***************************************************************************)
(* SpecHistory: the edit history of App under requests and their answers,  *)
(* undo, redo, selection of an original image and Start Over.              *)
(***************************************************************************)
HistoryNext ==
  \/ \E i \in Images : SelectOriginal(i, FALSE)
  \/ \E i \in Images : ImageLoaded(i)
  \/ \E p \in EditPrompts : SetPrompt(p)
  \/ Generate
  \/ \E k \in 1 .. MaxPending, ok \in BOOLEAN : Response(k, ok)
  \/ Undo
  \/ Redo
  \/ StartOver

SpecHistory == Init /\ [][HistoryNext]_vars

(***************************************************************************)
(* Properties.                                                             *)
(***************************************************************************)

\* every pixel of raster out at a painted pixel of mask canvas m has colour c
PaintedAre(out, m, c) == \A px \in m.pix : PixelAt(out, px) = c

\* every pixel of raster out at an unpainted pixel of mask canvas m has colour c
UnpaintedAre(out, m, c) ==
  /\ \A px \in out.pix \ m.pix : out.fg = c
  /\ Cardinality(m.pix \cup out.pix) < out.width * out.height => out.bg = c

SameSize(a, b) == a.width = b.width /\ a.height = b.height

\* C1: the raster getMaskAsBase64 yields has the mask canvas's dimensions, is
\* opaque white at every pixel a stroke painted and opaque black at every
\* other pixel.
C1_ExportIsBinaryMask ==
  exported.done /\ exported.out # NoMask =>
    /\ SameSize(exported.out, mask)
    /\ PaintedAre(exported.out, mask, White)
    /\ UnpaintedAre(exported.out, mask, Black)

\* C2: clearMask leaves the mask canvas empty with its dimensions unchanged,
\* and an export that follows it, with a drawing context at hand, yields a
\* raster of those dimensions that is opaque black everywhere.
C2_ClearThenExportIsBlack ==
  [][/\ ClearMaskButton =>
          mask'.pix = {} /\ SameSize(mask', mask)
     /\ raised = "clearMask" /\ ctx2d /\ GetMaskAsBase64 =>
          /\ SameSize(exported'.out, mask)
          /\ UnpaintedAre(exported'.out, [mask EXCEPT !.pix = {}], Black)]_vars

C4_MaskHasImageSize ==
  imageElement # 0 =>
    mask.width = NatW[imageElement] /\ mask.height = NatH[imageElement]

\* C5: when an image finishes loading while the mask canvas holds strokes,
\* the mask canvas afterwards is empty and has the new image's natural size.
C5_LoadResetsMask ==
  [][\A i \in Images :
       ImageLoaded(i) /\ mask.pix # {} =>
         /\ mask'.pix = {}
         /\ mask'.width = NatW[i] /\ mask'.height = NatH[i]]_vars

\* the mask canvas is as it was created and no image is loaded
NeverLoaded ==
  /\ imageElement = 0
  /\ mask.width = DefaultCanvasWidth /\ mask.height = DefaultCanvasHeight

HasMaskPart(req) == \E k \in 1 .. Len(req.parts) : req.parts[k].kind = "mask"

\* C6: if no image has been loaded, or no drawing context can be acquired, an
\* edit request made with the brush enabled is sent without a mask part.
C6_NoMaskWithoutImage ==
  [][Generate /\ isBrushEnabled /\ (NeverLoaded \/ ~ctx2d)
       /\ Len(pending') > Len(pending) =>
         ~HasMaskPart(pending'[Len(pending')])]_vars

\* C7: clearMask, called with an image loaded and the brush enabled, leaves
\* the display showing no stroke.
C7_ClearRedraws ==
  [][ClearMaskButton /\ imageElement # 0 /\ canvas # NoCanvas /\ ctx2d =>
       display'.overlay.pix = {}]_vars

\* C8: no handler ends with a canvas operation having thrown.
C8_NothingRaised == raised = "none"

\* the pointer at client position e is outside the letterbox rectangle, or
\* there is no image to map it to
NoCoordinate(e) ==
  \/ canvas = NoCanvas
  \/ imageElement = 0
  \/ OutsideRect(CanvasPoint(canvas.width, canvas.height, layout, e[1], e[2]),
                 Letterbox(canvas.width, canvas.height, NatW[imageElement],
                           NatH[imageElement]))

\* C9: a pointer-down or pointer-move without a coordinate leaves the mask
\* canvas as it was and throws nothing.
C9_NoCoordinateNoPaint ==
  [][mask' # mask \/ raised' # "none" =>
       \A e \in ClientPoints :
         NoCoordinate(e) => ~(MouseDown(e) \/ MouseMove(e))]_vars

\* C9 witness: a stroke is under way on a painted mask, the path has a
\* current point, and the pointer can move to a place without a coordinate
C9_Witness ==
  /\ isDrawing /\ isBrushEnabled /\ ctx2d
  /\ imageElement # 0 /\ canvas # NoCanvas
  /\ path # <<>> /\ mask.pix # {}
  /\ \E e \in ClientPoints : NoCoordinate(e)

\* the letterbox rectangle of the specification, for the input of probe
ProbeRect ==
  LET cw == probe.cw
      ch == probe.ch
      iw == probe.iw
      ih == probe.ih
      wide == iw * ch > cw * ih
      dw == IF wide THEN I(cw) ELSE Norm(ch * iw, ih)
      dh == IF wide THEN Norm(cw * ih, iw) ELSE I(ch)
  IN  <<Norm(cw * dw[2] - dw[1], 2 * dw[2]), Norm(ch * dh[2] - dh[1], 2 * dh[2]), dw, dh>>

\* the pointer's position in the backing store, for the input of probe
ProbePoint ==
  <<Norm((probe.ex - probe.rect.left) * probe.cw, probe.rect.width),
    Norm((probe.ey - probe.rect.top) * probe.ch, probe.rect.height)>>

StrictlyInside(p, r) ==
  /\ RLt(r[1], p[1]) /\ RLt(p[1], RAdd(r[1], r[3]))
  /\ RLt(r[2], p[2]) /\ RLt(p[2], RAdd(r[2], r[4]))

StrictlyOutside(p, r) ==
  \/ RLt(p[1], r[1]) \/ RLt(RAdd(r[1], r[3]), p[1])
  \/ RLt(p[2], r[2]) \/ RLt(RAdd(r[2], r[4]), p[2])

\* C10: for a pointer strictly inside the draw rectangle getCoords returns
\* ((canvasX-drawX)/drawWidth*Iw, (canvasY-drawY)/drawHeight*Ih), a point of
\* [0,Iw]x[0,Ih]; strictly outside it returns no coordinate; and container
\* 800x600, image 1600x800, client (400,300) gives (800,400).
C10_GetCoords ==
  probe.done =>
    LET p == ProbePoint
        r == ProbeRect
        out == probe.out
    IN  /\ StrictlyInside(p, r) =>
             /\ out # NoCoord
             /\ RMul(out[1], r[3]) = RMul(RSub(p[1], r[1]), I(probe.iw))
             /\ RMul(out[2], r[4]) = RMul(RSub(p[2], r[2]), I(probe.ih))
             /\ RLe(I(0), out[1]) /\ RLe(out[1], I(probe.iw))
             /\ RLe(I(0), out[2]) /\ RLe(out[2], I(probe.ih))
        /\ StrictlyOutside(p, r) => out = NoCoord
        /\ probe.cw = 800 /\ probe.ex = 400 /\ probe.ey = 300 =>
             out = <<I(800), I(400)>>

\* C10 witness: getCoords has returned (800,400) for the scenario
C10_Witness ==
  /\ probe.done
  /\ probe.cw = 800 /\ probe.ch = 600 /\ probe.iw = 1600 /\ probe.ih = 800
  /\ probe.ex = 400 /\ probe.ey = 300
  /\ StrictlyInside(ProbePoint, ProbeRect)
  /\ probe.out = <<I(800), I(400)>>

\* the container and the image of the input of probe
ProbeWide == probe.iw * probe.ch > probe.cw * probe.ih

InContainer(r) ==
  /\ RLe(I(0), r[1]) /\ RLe(RAdd(r[1], r[3]), I(probe.cw))
  /\ RLe(I(0), r[2]) /\ RLe(RAdd(r[2], r[4]), I(probe.ch))

\* C11: the render effect's draw rectangle is width-fit and vertically
\* centred when Iw/Ih > Cw/Ch, otherwise height-fit and horizontally centred;
\* it lies in [0,Cw]x[0,Ch] and drawWidth*Ih = drawHeight*Iw; container
\* 800x600 with image 1600x800 gives 800x400 at drawX = 0, drawY = 100.
C11_LetterboxRect ==
  probe.done /\ probe.by = "render" =>
    LET r == probe.out
    IN  /\ ProbeWide =>
             /\ r[3] = I(probe.cw) /\ r[1] = I(0)
             /\ RAdd(r[2], RAdd(r[2], r[4])) = I(probe.ch)
        /\ ~ProbeWide =>
             /\ r[4] = I(probe.ch) /\ r[2] = I(0)
             /\ RAdd(r[1], RAdd(r[1], r[3])) = I(probe.cw)
        /\ InContainer(r)
        /\ RMul(r[3], I(probe.ih)) = RMul(r[4], I(probe.iw))
        /\ probe.cw = 800 /\ probe.ch = 600 /\ probe.iw = 1600 /\ probe.ih = 800 =>
             r = <<I(0), I(100), I(800), I(400)>>

\* C11 witness: the render effect has computed the rectangle of the scenario
C11_Witness ==
  /\ probe.done /\ probe.by = "render"
  /\ probe.cw = 800 /\ probe.ch = 600 /\ probe.iw = 1600 /\ probe.ih = 800
  /\ probe.out = <<I(0), I(100), I(800), I(400)>>

\* C12: a stroke made with brush size s shows on the display, after the mask
\* canvas is scaled into the draw rectangle, with thickness s.
C12_ConstantThickness ==
  probe.done /\ probe.by = "overlay" => probe.out = I(probe.size)

\* the pointer at client position e can paint: the brush is enabled, a
\* context is at hand and e has a coordinate
CanPaintAt(e) == isBrushEnabled /\ ctx2d /\ ~NoCoordinate(e)

\* the pixels a round-capped segment from a to b paints with the brush as set
BrushSegment(a, b) ==
  SegmentPixels(mask, a, b, LineWidth(brushSize, NatW[imageElement], canvas.width))

\* C13: a pointer-down that starts a stroke at p0 paints nothing and anchors
\* the path at p0; each pointer-move of the stroke at pi paints the
\* round-capped segment from the previous point to pi and anchors the path at
\* pi, so that the first move paints the segment from p0.
C13_StrokeIsConnected ==
  [][\A e \in ClientPoints :
       /\ ~isDrawing /\ CanPaintAt(e) /\ MouseDown(e) =>
            /\ mask' = mask
            /\ path' = getCoords(e)
       /\ isDrawing /\ CanPaintAt(e) /\ MouseMove(e) =>
            /\ path' = getCoords(e)
            /\ BrushSegment(IF path = <<>> THEN getCoords(e) ELSE path, getCoords(e))
                 \subseteq mask'.pix]_vars

\* a step that paints: the mask canvas gains painted pixels
Paints == mask.pix # mask'.pix /\ mask.pix \subseteq mask'.pix

\* C14: a step that paints a segment requests a redraw; a frame that runs the
\* requested redraws leaves the mask canvas as it was and the display showing
\* the loaded image with the whole of the mask canvas over it.
C14_RedrawAfterStroke ==
  [][/\ Paints => Len(rafQueue') = Len(rafQueue) + 1
     /\ AnimationFrame =>
          /\ mask' = mask
          /\ canvas # NoCanvas =>
               /\ display'.img = imageElement
               /\ display'.overlaid
               /\ display'.overlay = mask]_vars

\* C15: the display shows the mask overlay only while the brush is enabled,
\* drawn at opacity 0.4, and the context's opacity is 1.0 afterwards.
C15_OverlayOnlyWithBrush ==
  /\ display.overlaid =>
       /\ isBrushEnabled
       /\ display.overlayAlpha = OverlayAlpha
  /\ display.globalAlpha = FullAlpha

\* the step is an image load or a call of clearMask
LoadsOrClears ==
  \/ \E i \in Images : ImageLoaded(i)
  \/ \E i \in Images : SelectOriginal(i, FALSE)
  \/ ClearMaskButton

\* the step is a pointer-down or a pointer-move
PointerPaints == \E e \in ClientPoints : MouseDown(e) \/ MouseMove(e)

\* C16: a step other than an image load or clearMask keeps the mask canvas's
\* dimensions and every painted pixel; if it changes the mask canvas at all
\* it is a pointer-down or pointer-move, which only adds painted pixels.
C16_MaskPersists ==
  [][mask' # mask =>
       \/ LoadsOrClears
       \/ /\ SameSize(mask', mask)
          /\ mask.pix \subseteq mask'.pix
          /\ PointerPaints]_vars

\* C16 witness: with strokes on the mask canvas, a mask has been exported
\* for an edit request, its result has arrived and has been undone
C16_Witness ==
  /\ mask.pix # {}
  /\ exported.done
  /\ editHistory # <<>>
  /\ historyIndex < Len(editHistory) - 1
  /\ ~isDrawing

\* the kinds of the parts of request req, in the order sent
PartKinds(req) == [k \in 1 .. Len(req.parts) |-> req.parts[k].kind]

\* C17: an edit request made while the brush is disabled does not ask the
\* canvas for a mask and is sent with the source image, the object image if
\* there is one, and the prompt, and with no mask part.
C17_NoBrushNoMask ==
  [][Generate /\ ~isBrushEnabled /\ Len(pending') > Len(pending) =>
       /\ exported' = exported
       /\ PartKinds(pending'[Len(pending')]) =
            IF objectImage # 0 THEN <<"image", "object", "text">>
                               ELSE <<"image", "text">>]_vars

\* C17 witness: a request with an object image is pending, made with the
\* brush disabled
C17_Witness ==
  /\ ~isBrushEnabled
  /\ isLoading
  /\ pending # <<>>
  /\ PartKinds(pending[1]) = <<"image", "object", "text">>

\* C18: for the canvas as it is and any image, the render effect, getCoords
\* and the redraw callback compute the same draw rectangle; and the rectangle
\* in which the display shows the image is the one getCoords maps pointer
\* events with.
C18_SameGeometry ==
  canvas # NoCanvas =>
    /\ \A i \in Images :
         LET r == CoordsRect(canvas.width, canvas.height, NatW[i], NatH[i])
         IN  /\ RenderRect(canvas.width, canvas.height, NatW[i], NatH[i]) = r
             /\ RedrawRect(canvas.width, canvas.height, NatW[i], NatH[i]) = r
    /\ display.img # 0 /\ imageElement # 0 =>
         display.rect = CoordsRect(canvas.width, canvas.height,
                                   NatW[imageElement], NatH[imageElement])

\* C19: a pointer-up or pointer-leave empties the path, the path is empty
\* whenever no stroke is under way, and a step that paints does so within a
\* stroke and paints the segment from the path's current point, a point of
\* that stroke, to the new point.
C19_StrokesAreSeparate ==
  [][/\ StopDrawing => path' = <<>>
     /\ ~isDrawing' => path' = <<>>
     /\ Paints =>
          /\ isDrawing /\ path # <<>>
          /\ mask'.pix = mask.pix \cup BrushSegment(path, path')]_vars

\* C19 witness: a stroke has painted and ended, and the next one has begun
C19_Witness ==
  /\ isDrawing /\ isBrushEnabled /\ ctx2d
  /\ mask.pix # {}
  /\ path = <<>>
  /\ \E e \in ClientPoints : ~NoCoordinate(e)

\* C20: the stroke width set on the mask context is brushSize * (Iw / canvas
\* width); brush size 30, canvas width 800 and image width 1600 give 60.
C20_StrokeWidth ==
  probe.done /\ probe.by = "lineWidth" =>
    /\ RMul(probe.out, I(probe.cw)) = I(probe.size * probe.iw)
    /\ probe.size = 30 /\ probe.cw = 800 /\ probe.iw = 1600 => probe.out = I(60)

\* C20 witness: the stroke width of the scenario has been computed
C20_Witness ==
  /\ probe.done /\ probe.by = "lineWidth"
  /\ probe.size = 30 /\ probe.cw = 800 /\ probe.iw = 1600
  /\ probe.out = I(60)

\* the mask part of request req
MaskPart(req) == req.parts[CHOOSE k \in 1 .. Len(req.parts) : req.parts[k].kind = "mask"]

\* C21: an edit request sent with a mask carries a mask of the natural size
\* of the original image sent in the same request.
C21_MaskFitsImage ==
  [][Generate /\ Len(pending') > Len(pending) =>
       LET req == pending'[Len(pending')]
       IN  HasMaskPart(req) =>
             /\ MaskPart(req).mask.width = NatW[req.parts[1].image]
             /\ MaskPart(req).mask.height = NatH[req.parts[1].image]]_vars

\* request req was issued for an original image other than the one selected
\* now (so a new image was selected, or Start Over pressed, since)
IssuedBeforeReset(req) == req.parts[1].image # originalImage

\* C22: the response to a request issued before the history was reset
\* neither restores earlier entries nor adds its own result: it leaves
\* editHistory and historyIndex as they are.
C22_StaleResponseIgnored ==
  [][\A k \in 1 .. Len(pending), ok \in BOOLEAN :
       IssuedBeforeReset(pending[k]) /\ Response(k, ok) =>
         /\ editHistory' = editHistory
         /\ historyIndex' = historyIndex]_vars

\* the Generate button is enabled and handleEditRequest would not return
\* early: lines 199 and 64
CanGenerate == ~isLoading /\ originalImage # 0 /\ prompt \notin {"", " "}

\* C23: at most one edit request is in flight; while one is, isLoading is
\* true and Generate cannot start another.
C23_OneRequestInFlight ==
  /\ Len(pending) <= 1
  /\ pending # <<>> => isLoading /\ ~CanGenerate

\* -1 <= historyIndex <= length(editHistory) - 1
HistoryIndexInRange == -1 <= historyIndex /\ historyIndex <= Len(editHistory) - 1

\* C24: historyIndex always lies between -1 and the index of the last entry
\* of editHistory; undo and redo leave editHistory as it is; a completed edit
\* leaves historyIndex at the last entry, so that nothing is left to redo.
C24_HistoryIndex ==
  /\ []HistoryIndexInRange
  /\ [][/\ Undo \/ Redo => editHistory' = editHistory /\ historyIndex' # historyIndex
        /\ \A k \in 1 .. Len(pending) :
             Response(k, TRUE) =>
               /\ editHistory' # <<>>
               /\ historyIndex' = Len(editHistory') - 1]_vars

\* an edit completed after an undo, from a request made before Start Over,
\* and was then undone
C24_Witness ==
  /\ originalImage = 0
  /\ Len(editHistory) = MaxHistory
  /\ historyIndex = 0

====
